---- MODULE Spec2Model ----
(***************************************************************************)
(* Model of src/src/hooks/useGoogleDataEnrichment.ts: the React hook       *)
(* useGoogleDataEnrichment, its progress state and the asynchronous batch  *)
(* run enrichMissingData.                                                  *)
(*                                                                         *)
(* React state: setProgress(updater) does not change `progress`; it queues *)
(* the updater.  A render applies queued updaters in order and rebuilds    *)
(* the enrichMissingData callback (useCallback, deps [progress.isRunning]),*)
(* whose guard reads the progress.isRunning captured by that render.       *)
(* Every step of the async function between two awaits is one action.      *)
(***************************************************************************)
EXTENDS Integers, Sequences, FiniteSets, TLC

\* ---- bounds of the model ----
MaxRuns == 2        \* calls of enrichMissingData in one behaviour
MaxN == 4           \* eligible records the store holds at a query
MaxPending == 2     \* queued state updates before React has to render
MaxCount == 40      \* rows a count query of getEnrichmentStats returns

\* ---- program constants ----
batchSize == 3      \* line 72
QueryLimit == 25    \* lines 43, 58

Runs == 1..MaxRuns
Outcomes == {"ok", "error", "throw"}

VARIABLES
    progress,   \* the rendered EnrichmentProgress (lines 12-17)
    queue,      \* updaters passed to setProgress and not yet applied
    closure,    \* progress.isRunning captured by the current callback
    pc,         \* per call: position in enrichMissingData
    rows1,      \* per call: preschoolsWithoutData
    err1,       \* per call: error1
    cand,       \* per call: preschoolsToEnrich
    q2,         \* per call: what the second query was to find and found (history)
    n,          \* per call: preschoolsToEnrich.length
    i,          \* per call: loop variable i
    inflight,   \* per call: list positions whose invoke has not settled
    batches,    \* per call: the batches dispatched so far (history)
    delays,     \* per call: inter-batch delays started so far (history)
    failed,     \* per call: invokes settled with an error or a throw (history)
    qerr,       \* per call: a candidate query reported an error (history)
    sent,       \* per call: updaters passed to setProgress, by effect (history)
    ending,     \* per call: the path on which the run ended (history)
    result,     \* per call: state of the promise enrichMissingData returned
    spc,        \* position in getEnrichmentStats
    sdata1,     \* totalPreschools: {} for null, {k} for an array of k rows
    sout,       \* what the queries of the last getEnrichmentStats did (history)
    stats       \* <<the value the last getEnrichmentStats returned>>, or <<>>

statsVars == <<spc, sdata1, sout, stats>>

vars == <<progress, queue, closure, pc, rows1, err1, cand, q2, n, i, inflight,
          batches, delays, failed, qerr, sent, ending, result, statsVars>>

Min(a, b) == IF a < b THEN a ELSE b
Range(s) == {s[j] : j \in DOMAIN s}

\* ---- setProgress updaters (lines 23, 69, 91, 94, 97-101, 116) ----
Upd(op, v) == [op |-> op, val |-> v]

ApplyUpdate(p, u) ==
    CASE u.op = "start"    -> [p EXCEPT !.isRunning = TRUE, !.processed = 0, !.errors = 0]
      [] u.op = "setTotal" -> [p EXCEPT !.total = u.val]
      [] u.op = "incErr"   -> [p EXCEPT !.errors = p.errors + 1]
      [] u.op = "incProc"  -> [p EXCEPT !.processed = p.processed + 1]
      [] u.op = "incBoth"  -> [p EXCEPT !.processed = p.processed + 1,
                                        !.errors = p.errors + 1]
      [] u.op = "stop"     -> [p EXCEPT !.isRunning = FALSE]

RECURSIVE ApplyAll(_, _)
ApplyAll(p, us) ==
    IF us = <<>> THEN p ELSE ApplyAll(ApplyUpdate(p, Head(us)), Tail(us))

\* ---- decisions of enrichMissingData ----
AlreadyRunningNever(c) == FALSE
AlreadyRunning(c) == c

DepsChanged(old, new) == old.isRunning # new.isRunning

FetchFailedFirstOnly(e1, e2) == e1
FetchFailed(e1, e2) == e1 \/ e2

\* ---- the store: the table as a sequence of records, the id is the index;
\* lat, lng: Latitud, Longitud are not null; data: the record has no row in
\* preschool_google_data ("none"), one under 7 days old ("fresh") or an
\* older one ("stale")
Rec(lat, lng, data) == [lat |-> lat, lng |-> lng, data |-> data]
Row(st, id) == [id |-> id, lat |-> st[id].lat, lng |-> st[id].lng,
                data |-> st[id].data]

\* the rows with the ids of ids at or after id, in table order
RECURSIVE Pick(_, _, _)
Pick(st, ids, id) ==
    IF id > Len(st) THEN <<>>
    ELSE (IF id \in ids THEN <<Row(st, id)>> ELSE <<>>) \o Pick(st, ids, id + 1)

Limit(rows, k) == SubSeq(rows, 1, Min(Len(rows), k))

\* the id list given to both queries: [] (lines 42, 57)
IdList == {}

\* lines 31-43: Latitud and Longitud not null, id not in [], limit 25
Query1Rows(st) ==
    Limit(Pick(st, {id \in DOMAIN st :
                       st[id].lat /\ st[id].lng /\ id \notin IdList}, 1),
          QueryLimit)

\* lines 46-58: Latitud and Longitud not null, id in [], limit 25
Query2Rows(st) ==
    Limit(Pick(st, {id \in DOMAIN st :
                       st[id].lat /\ st[id].lng /\ id \in IdList}, 1),
          QueryLimit)

\* stores of located records without data, and the same with one more
\* record of any kind
PlainStore(k) == [id \in 1..k |-> Rec(TRUE, TRUE, "none")]
PlainStores == {PlainStore(k) : k \in 0..MaxN}
RecordKinds == {Rec(TRUE, TRUE, "none"), Rec(TRUE, TRUE, "fresh"),
                Rec(TRUE, TRUE, "stale"), Rec(TRUE, FALSE, "none"),
                Rec(FALSE, TRUE, "none")}
MixedStores ==
    PlainStores \cup {Append(PlainStore(k), kind) :
                         k \in 0..(MaxN - 1), kind \in RecordKinds}

Ids(rows) == {rows[j].id : j \in DOMAIN rows}
StaleIds(st) == {id \in DOMAIN st :
                    st[id].lat /\ st[id].lng /\ st[id].data = "stale"}

\* preschoolsToEnrich.slice(start, start + batchSize), as 1-based list positions
BatchOfShort(len, start) == [j \in 1..Min(batchSize - 1, len - start) |-> start + j]
BatchOf(len, start) == [j \in 1..Min(batchSize, len - start) |-> start + j]

NextIndex(idx) == idx + batchSize

MoreBatchesAlways(len, idx) == TRUE
MoreBatches(len, idx) == idx + batchSize < len

SettleUpdates(o) ==
    CASE o = "ok"    -> <<Upd("incProc", 0)>>
      [] o = "error" -> <<Upd("incErr", 0), Upd("incProc", 0)>>
      [] o = "throw" -> <<Upd("incBoth", 0)>>

FinallyUpdatesNone == <<>>
FinallyUpdates == <<Upd("stop", 0)>>

OnThrowRejects == "rejected"
OnThrow == "resolved"

Active == {"query1", "query2", "batch", "delay"}
Room(k) == Len(queue) + k <= MaxPending

\* number of updaters of us whose op is in ops
Count(us, ops) == Cardinality({j \in DOMAIN us : us[j].op \in ops})

Tally(t, us) ==
    [proc  |-> t.proc + Count(us, {"incProc", "incBoth"}),
     err   |-> t.err + Count(us, {"incErr", "incBoth"}),
     total |-> t.total + Count(us, {"setTotal"}),
     stop  |-> t.stop + Count(us, {"stop"})]

Init ==
    /\ progress = [total |-> 0, processed |-> 0, errors |-> 0, isRunning |-> FALSE]
    /\ queue = <<>>
    /\ closure = FALSE
    /\ pc = [r \in Runs |-> "idle"]
    /\ rows1 = [r \in Runs |-> <<>>]
    /\ err1 = [r \in Runs |-> FALSE]
    /\ cand = [r \in Runs |-> <<>>]
    /\ q2 = [r \in Runs |-> [stale |-> {}, got |-> {}]]
    /\ n = [r \in Runs |-> 0]
    /\ i = [r \in Runs |-> 0]
    /\ inflight = [r \in Runs |-> {}]
    /\ batches = [r \in Runs |-> <<>>]
    /\ delays = [r \in Runs |-> 0]
    /\ failed = [r \in Runs |-> 0]
    /\ qerr = [r \in Runs |-> FALSE]
    /\ sent = [r \in Runs |-> [proc |-> 0, err |-> 0, total |-> 0, stop |-> 0]]
    /\ ending = [r \in Runs |-> "none"]
    /\ result = [r \in Runs |-> "none"]
    /\ spc = "idle"
    /\ sdata1 = {}
    /\ sout = <<>>
    /\ stats = <<>>

\* setProgress called with each updater of us, in order, by call r
SetProgress(r, us) ==
    /\ Room(Len(us))
    /\ queue' = queue \o us
    /\ sent' = [sent EXCEPT ![r] = Tally(@, us)]

\* lines 115-117 and the return: the finally block
Finish(r, us, how, res) ==
    /\ SetProgress(r, us \o FinallyUpdates)
    /\ pc' = [pc EXCEPT ![r] = "done"]
    /\ inflight' = [inflight EXCEPT ![r] = {}]
    /\ ending' = [ending EXCEPT ![r] = how]
    /\ result' = [result EXCEPT ![r] = res]

\* lines 73-76: the loop test with i = idx; dispatch the batch or leave the loop
Loop(r, us, len, idx) ==
    /\ i' = [i EXCEPT ![r] = idx]
    /\ IF idx < len
       THEN /\ SetProgress(r, us)
            /\ inflight' = [inflight EXCEPT ![r] = Range(BatchOf(len, idx))]
            /\ batches' = [batches EXCEPT ![r] = Append(@, BatchOf(len, idx))]
            /\ pc' = [pc EXCEPT ![r] = "batch"]
            /\ UNCHANGED <<ending, result>>
       ELSE /\ Finish(r, us, "completed", "resolved")
            /\ UNCHANGED batches

\* lines 19-31: guard, mark running, first query sent.  Calls are numbered in
\* the order they are made.
Call(r) ==
    /\ UNCHANGED statsVars
    /\ pc[r] = "idle"
    /\ \A s \in Runs : s < r => pc[s] # "idle"
    /\ IF AlreadyRunning(closure)
       THEN /\ pc' = [pc EXCEPT ![r] = "returned"]
            /\ result' = [result EXCEPT ![r] = "resolved"]
            /\ UNCHANGED <<queue, sent>>
       ELSE /\ SetProgress(r, <<Upd("start", 0)>>)
            /\ pc' = [pc EXCEPT ![r] = "query1"]
            /\ UNCHANGED result
    /\ UNCHANGED <<progress, closure, rows1, err1, cand, q2, n, i, inflight,
                   batches, delays, failed, qerr, ending>>

\* lines 31-46: first query settles, second query sent
Query1Settle(r, o, st) ==
    /\ UNCHANGED statsVars
    /\ pc[r] = "query1"
    /\ IF o = "throw"
       THEN /\ Finish(r, <<>>, "exception", OnThrow)
            /\ UNCHANGED <<rows1, err1, qerr>>
       ELSE /\ rows1' = [rows1 EXCEPT ![r] = IF o = "ok" THEN Query1Rows(st) ELSE <<>>]
            /\ err1' = [err1 EXCEPT ![r] = (o = "error")]
            /\ qerr' = [qerr EXCEPT ![r] = (o = "error")]
            /\ pc' = [pc EXCEPT ![r] = "query2"]
            /\ UNCHANGED <<queue, sent, inflight, ending, result>>
    /\ UNCHANGED <<progress, closure, cand, q2, n, i, batches, delays, failed>>

\* lines 46-76: second query settles, error check, total, first batch
Query2Settle(r, o, st) ==
    /\ UNCHANGED statsVars
    /\ pc[r] = "query2"
    /\ qerr' = [qerr EXCEPT ![r] = @ \/ (o = "error")]
    /\ q2' = [q2 EXCEPT ![r] = IF o = "ok"
                                THEN [stale |-> StaleIds(st),
                                      got |-> Ids(Query2Rows(st))]
                                ELSE @]
    /\ IF o = "throw"
       THEN /\ Finish(r, <<>>, "exception", OnThrow)
            /\ UNCHANGED <<cand, n, i, batches>>
       ELSE IF FetchFailed(err1[r], o = "error")
       THEN /\ Finish(r, <<>>, "fetchError", "resolved")
            /\ UNCHANGED <<cand, n, i, batches>>
       ELSE LET preschools == rows1[r] \o (IF o = "ok" THEN Query2Rows(st) ELSE <<>>)
                len == Len(preschools) IN
            /\ cand' = [cand EXCEPT ![r] = preschools]
            /\ n' = [n EXCEPT ![r] = len]
            /\ Loop(r, <<Upd("setTotal", len)>>, len, 0)
    /\ UNCHANGED <<progress, closure, rows1, err1, delays, failed>>

\* lines 78-102: one invoke of the current batch settles
Settle(r, p, o) ==
    /\ UNCHANGED statsVars
    /\ pc[r] = "batch"
    /\ p \in inflight[r]
    /\ SetProgress(r, SettleUpdates(o))
    /\ inflight' = [inflight EXCEPT ![r] = @ \ {p}]
    /\ failed' = [failed EXCEPT ![r] = IF o = "ok" THEN @ ELSE @ + 1]
    /\ UNCHANGED <<progress, closure, pc, rows1, err1, cand, q2, n, i, batches,
                   delays, qerr, ending, result>>

\* line 76: Promise.allSettled resolves when no invoke of the batch is pending
AllSettledNoWait(pending) == TRUE
AllSettled(pending) == pending = {}

\* lines 76, 107-110: Promise.allSettled resolves; delay or next loop pass
BatchJoined(r) ==
    /\ UNCHANGED statsVars
    /\ pc[r] = "batch"
    /\ AllSettled(inflight[r])
    /\ IF MoreBatches(n[r], i[r])
       THEN /\ pc' = [pc EXCEPT ![r] = "delay"]
            /\ delays' = [delays EXCEPT ![r] = @ + 1]
            /\ UNCHANGED <<queue, sent, i, inflight, batches, ending, result>>
       ELSE /\ Loop(r, <<>>, n[r], NextIndex(i[r]))
            /\ UNCHANGED delays
    /\ UNCHANGED <<progress, closure, rows1, err1, cand, q2, n, failed, qerr>>

\* line 108: the 2000 ms timer fires; next loop pass
TimerFires(r) ==
    /\ UNCHANGED statsVars
    /\ pc[r] = "delay"
    /\ Loop(r, <<>>, n[r], NextIndex(i[r]))
    /\ UNCHANGED <<progress, closure, rows1, err1, cand, q2, n, delays, failed,
                   qerr>>

\* React applies the first k queued updaters and re-renders the hook; with
\* batching k is the whole queue, without it k = 1 (line 118: the callback is
\* rebuilt when progress.isRunning changed)
Render(k) ==
    /\ UNCHANGED statsVars
    /\ k \in 1..Len(queue)
    /\ progress' = ApplyAll(progress, SubSeq(queue, 1, k))
    /\ queue' = SubSeq(queue, k + 1, Len(queue))
    /\ closure' = IF DepsChanged(progress, progress') THEN progress'.isRunning
                  ELSE closure
    /\ UNCHANGED <<pc, rows1, err1, cand, q2, n, i, inflight, batches, delays,
                   failed, qerr, sent, ending, result>>

Next ==
    \/ \E r \in Runs : Call(r)
    \/ \E r \in Runs, o \in Outcomes, st \in PlainStores : Query1Settle(r, o, st)
    \/ \E r \in Runs, o \in Outcomes, st \in PlainStores : Query2Settle(r, o, st)
    \/ \E r \in Runs, o \in Outcomes : \E p \in inflight[r] : Settle(r, p, o)
    \/ \E r \in Runs : BatchJoined(r)
    \/ \E r \in Runs : TimerFires(r)
    \/ \E k \in 1..MaxPending : Render(k)

Spec == Init /\ [][Next]_vars

\* every query, invoke and timer eventually settles; React eventually renders
Fairness ==
    /\ \A r \in Runs : WF_vars(\E o \in Outcomes, st \in PlainStores : Query1Settle(r, o, st))
    /\ \A r \in Runs : WF_vars(\E o \in Outcomes, st \in PlainStores : Query2Settle(r, o, st))
    /\ \A r \in Runs : WF_vars(\E o \in Outcomes : \E p \in inflight[r] : Settle(r, p, o))
    /\ \A r \in Runs : WF_vars(BatchJoined(r))
    /\ \A r \in Runs : WF_vars(TimerFires(r))
    /\ WF_vars(\E k \in 1..MaxPending : Render(k))

FairSpec == Spec /\ Fairness

\* ---- getEnrichmentStats (lines 120-141) ----
runVars == <<progress, queue, closure, pc, rows1, err1, cand, q2, n, i,
             inflight, batches, delays, failed, qerr, sent, ending, result>>

\* the data of a query result: an array of k rows, or null with an error
Data(o, k) == IF o = "ok" THEN {k} ELSE {}

\* data?.length || 0
LengthOrZero(d) == IF d = {} THEN 0 ELSE CHOOSE k \in d : TRUE

\* floor(log2(num / den)) for num, den > 0
RECURSIVE Log2Floor(_, _)
Log2Floor(num, den) ==
    IF num >= 2 * den THEN 1 + Log2Floor(num, 2 * den)
    ELSE IF num < den THEN Log2Floor(2 * num, den) - 1
    ELSE 0

\* 2^s mod m
RECURSIVE Pow2Mod(_, _)
Pow2Mod(s, m) == IF s = 0 THEN 1 % m ELSE (2 * Pow2Mod(s - 1, m)) % m

RECURSIVE Pow2(_)
Pow2(d) == IF d = 0 THEN 1 ELSE 2 * Pow2(d - 1)

\* nearest integer to a / b, a half rounded up (Math.round of the exact value)
RoundHalfUp(a, b) == (2 * a + b) \div (2 * b)

\* Math.round(e / t * 100) in IEEE 754 double arithmetic, for e >= 0, t > 0.
\* The double quotient q = fl(e / t) keeps 53 bits; r is what the division
\* leaves below them.  The rounding errors are far smaller than 1 / (2t), so
\* they decide the result only when 100e / t is exactly K - 1/2: then the
\* result is K - 1 if q was rounded down by more than half the spacing of
\* the doubles below K - 1/2 divided by 100, and K otherwise.
MathRoundPercent(e, t) ==
    LET K == RoundHalfUp(100 * e, t)
        p == Log2Floor(e, t)
        s == 52 - p
        r == (e * Pow2Mod(s, t)) % t
        odd == (e * Pow2Mod(s, 2 * t)) % (2 * t) >= t
        down == 2 * r < t \/ (2 * r = t /\ ~odd)
        ex == IF K = 1 THEN 0 - 2 ELSE Log2Floor(2 * K - 1, 2)
    IN  IF e = 0 THEN 0
        ELSE IF (200 * e + t) % (2 * t) # 0 THEN K
        ELSE IF down /\ r > 0 /\ 200 * r > t * Pow2(ex - p) THEN K - 1
        ELSE K

\* lines 131-136
MakeStats(d1, d2) ==
    [total      |-> LengthOrZero(d1),
     enriched   |-> LengthOrZero(d2),
     percentage |-> IF LengthOrZero(d1) # 0
                    THEN MathRoundPercent(LengthOrZero(d2), LengthOrZero(d1))
                    ELSE 0]

\* line 139
ZeroStats == [total |-> 0, enriched |-> 0, percentage |-> 0]

\* the updaters getEnrichmentStats passes to setProgress: it never calls it
StatsUpdatesSome == <<Upd("setTotal", 0)>>
StatsUpdates == <<>>

\* lines 120-125: getEnrichmentStats called, first count query sent
StatsCall ==
    /\ spc = "idle"
    /\ spc' = "count1"
    /\ sdata1' = {}
    /\ sout' = <<>>
    /\ stats' = <<>>
    /\ queue' = queue \o StatsUpdates
    /\ UNCHANGED <<progress, closure, pc, rows1, err1, cand, q2, n, i, inflight,
                   batches, delays, failed, qerr, sent, ending, result>>

\* lines 122-129: first count query settles, second one sent
Count1Settle(o, k) ==
    /\ spc = "count1"
    /\ sout' = Append(sout, [o |-> o, k |-> IF o = "ok" THEN k ELSE 0])
    /\ IF o = "throw"
       THEN /\ stats' = <<ZeroStats>>
            /\ spc' = "idle"
            /\ UNCHANGED sdata1
       ELSE /\ sdata1' = Data(o, k)
            /\ spc' = "count2"
            /\ UNCHANGED stats
    /\ queue' = queue \o StatsUpdates
    /\ UNCHANGED <<progress, closure, pc, rows1, err1, cand, q2, n, i, inflight,
                   batches, delays, failed, qerr, sent, ending, result>>

\* lines 127-140: second count query settles, the stats are returned
Count2Settle(o, k) ==
    /\ spc = "count2"
    /\ sout' = Append(sout, [o |-> o, k |-> IF o = "ok" THEN k ELSE 0])
    /\ stats' = IF o = "throw" THEN <<ZeroStats>>
                ELSE <<MakeStats(sdata1, Data(o, k))>>
    /\ spc' = "idle"
    /\ sdata1' = {}
    /\ queue' = queue \o StatsUpdates
    /\ UNCHANGED <<progress, closure, pc, rows1, err1, cand, q2, n, i, inflight,
                   batches, delays, failed, qerr, sent, ending, result>>

StatsNext ==
    \/ StatsCall
    \/ \E o \in Outcomes, k \in 0..MaxCount : Count1Settle(o, k)
    \/ \E o \in Outcomes, k \in 0..MaxCount : Count2Settle(o, k)

\* getEnrichmentStats alone, over every pair of counts up to MaxCount
StatsSpec == Init /\ [][StatsNext]_vars

\* lines 122-125: the rows with Latitud not null
TotalRows(st) == Cardinality({id \in DOMAIN st : st[id].lat})
\* lines 127-129: the rows of preschool_google_data
EnrichedRows(st) == Cardinality({id \in DOMAIN st : st[id].data # "none"})

\* the whole hook over stores of mixed records: a run of enrichMissingData
\* and calls of getEnrichmentStats interleaved
HookNext ==
    \/ Call(1)
    \/ \E r \in Runs, o \in Outcomes, st \in MixedStores : Query1Settle(r, o, st)
    \/ \E r \in Runs, o \in Outcomes, st \in MixedStores : Query2Settle(r, o, st)
    \/ \E r \in Runs, o \in Outcomes : \E p \in inflight[r] : Settle(r, p, o)
    \/ \E r \in Runs : BatchJoined(r)
    \/ \E r \in Runs : TimerFires(r)
    \/ \E k \in 1..MaxPending : Render(k)
    \/ StatsCall
    \/ \E o \in Outcomes, st \in MixedStores : Count1Settle(o, TotalRows(st))
    \/ \E o \in Outcomes, st \in MixedStores : Count2Settle(o, EnrichedRows(st))

HookSpec == Init /\ [][HookNext]_vars

\* C11: getEnrichmentStats returns {total: 0, enriched: 0, percentage: 0}
\* whenever one of its queries failed, by a throw or by an error result,
\* whichever of the two queries it was.
C11_ZeroStatsOnFailure ==
    (stats # <<>> /\ \E j \in DOMAIN sout : sout[j].o # "ok")
    => stats[1] = ZeroStats

\* C12: for counts total and enriched returned by the store, the result has
\* them unchanged and percentage = round(100 * enriched / total) if
\* total > 0, and 0 if total = 0.
C12_Percentage ==
    (stats # <<>> /\ Len(sout) = 2 /\ sout[1].o = "ok" /\ sout[2].o = "ok")
    => /\ stats[1].total = sout[1].k
       /\ stats[1].enriched = sout[2].k
       /\ stats[1].percentage =
             IF sout[1].k > 0
             THEN (200 * sout[2].k + sout[1].k) \div (2 * sout[1].k)
             ELSE 0

TypeOK ==
    /\ progress.total \in Nat /\ progress.processed \in Nat
    /\ progress.errors \in Nat /\ progress.isRunning \in BOOLEAN
    /\ Len(queue) <= MaxPending
    /\ closure = progress.isRunning
    /\ \A r \in Runs : pc[r] \in {"idle", "returned", "done"} \cup Active
\* ---- run activity ----
Running(r) == pc[r] \in Active
NoneRunning == \A r \in Runs : ~Running(r)
Settled == NoneRunning /\ queue = <<>>

C2_NoOverlap == Cardinality({r \in Runs : Running(r)}) <= 1
\* C3: processed <= total in every reachable progress state.
C3_ProcessedLeTotal == progress.processed <= progress.total

\* C4: errors <= processed in every reachable progress state, the state
\* between the two updates of the reported-error path included.
C4_ErrorsLeProcessed == progress.errors <= progress.processed

\* the calls that passed the guard, and the last of them
Started == {r \in Runs : pc[r] \notin {"idle", "returned"}}
IsLastStarted(r) == r \in Started /\ \A s \in Started : s <= r

\* C5: once the last run has gone through all its batches and every update is
\* applied, progress is {total: N, processed: N, errors: M, isRunning: false}
\* for its N candidates of which M failed, whatever the settle order was.
C5_FinalCounts ==
    \A r \in Runs :
        (Settled /\ IsLastStarted(r) /\ ending[r] = "completed")
        => progress = [total |-> n[r], processed |-> n[r],
                       errors |-> failed[r], isRunning |-> FALSE]
\* C6: when a run has ended and every update it made is applied, isRunning is
\* false, on each of the three ways a run ends; each ended run has cleared
\* the flag exactly once.
C6_NotRunningAfterRun ==
    /\ \A r \in Runs : pc[r] = "done" => sent[r].stop = 1
    /\ (Settled /\ \E r \in Runs : pc[r] = "done") => ~progress.isRunning

C6_Witness ==
    \E r, s \in Runs :
        /\ Settled /\ ~progress.isRunning
        /\ ending[r] = "exception"
        /\ ending[s] = "completed" /\ n[s] = MaxN

CeilDiv(a, b) == (a + b - 1) \div b
Max(a, b) == IF a > b THEN a ELSE b

\* batch k (from 0) of a list of len entries: the 1-based list positions
\* 3k+1 .. min(3k+3, len)
ExpectedBatch(len, k) ==
    [j \in 1..(Min(3 * k + 3, len) - 3 * k) |-> 3 * k + j]

\* C7: a run over N candidates dispatches ceil(N/3) batches, batch k holding
\* the list positions 3k..min(3k+2, N-1) in order, and waits
\* max(0, ceil(N/3) - 1) times, never after the last batch.
C7_BatchesAndDelays ==
    \A r \in Runs :
        /\ pc[r] \in {"batch", "delay"}
           => /\ Len(batches[r]) <= CeilDiv(n[r], 3)
              /\ delays[r] = Len(batches[r]) - (IF pc[r] = "delay" THEN 0 ELSE 1)
              /\ delays[r] <= Max(0, CeilDiv(n[r], 3) - 1)
        /\ (pc[r] = "done" /\ ending[r] = "completed")
           => /\ Len(batches[r]) = CeilDiv(n[r], 3)
              /\ \A k \in 1..Len(batches[r]) :
                    batches[r][k] = ExpectedBatch(n[r], k - 1)
              /\ delays[r] = Max(0, CeilDiv(n[r], 3) - 1)

C7_Witness ==
    \E r \in Runs :
        /\ pc[r] = "done" /\ n[r] = 4
        /\ batches[r] = << <<1, 2, 3>>, <<4>> >>
        /\ delays[r] = 1

\* C8: once a candidate query of a run has reported an error, the run
\* dispatches no invoke and increments neither processed nor errors, and it
\* ends having cleared the flag.
C8_FetchErrorAborts ==
    \A r \in Runs :
        qerr[r] =>
            /\ batches[r] = <<>>
            /\ sent[r].proc = 0 /\ sent[r].err = 0 /\ sent[r].total = 0
            /\ pc[r] = "query2" \/ (pc[r] = "done" /\ sent[r].stop = 1)
            /\ (Settled /\ IsLastStarted(r)) => ~progress.isRunning

C8_Witness ==
    \E r \in Runs :
        /\ qerr[r] /\ ~err1[r] /\ Len(rows1[r]) > 0
        /\ ending[r] = "fetchError"
        /\ Settled /\ ~progress.isRunning

RECURSIVE Flatten(_)
Flatten(ss) == IF ss = <<>> THEN <<>> ELSE Head(ss) \o Flatten(Tail(ss))

\* C9: a run whose queries succeed dispatches exactly one invoke for each
\* entry of the candidate list, in list order, however many of them fail.
C9_OneInvokePerCandidate ==
    \A r \in Runs :
        LET inv == Flatten(batches[r]) IN
        /\ inv = [j \in 1..Len(inv) |-> j]
        /\ Len(inv) <= n[r]
        /\ (pc[r] = "done" /\ ending[r] = "completed") => Len(inv) = n[r]
        /\ (pc[r] \in {"batch", "delay"}) => Len(inv) = Min(n[r], i[r] + 3)

C9_Witness ==
    \E r \in Runs :
        /\ pc[r] = "done" /\ ending[r] = "completed" /\ ~qerr[r]
        /\ n[r] = 4 /\ failed[r] = 4
        /\ Len(Flatten(batches[r])) = 4

\* C10: every started run ends with its promise resolved, never rejected,
\* and isRunning is false once the runs have ended, if every query, invoke
\* and timer settles.
C10_RunCompletes ==
    /\ \A r \in Runs : Running(r) ~> (pc[r] = "done" /\ result[r] = "resolved")
    /\ (\E r \in Runs : Running(r)) ~> (Settled /\ ~progress.isRunning)
    /\ [](\A r \in Runs : result[r] # "rejected")

C10_Witness ==
    \E r, s \in Runs :
        /\ pc[r] = "done" /\ ending[r] = "exception" /\ result[r] = "resolved"
        /\ pc[s] = "done" /\ failed[s] > 0 /\ result[s] = "resolved"
        /\ Settled /\ ~progress.isRunning
\* C13: the running flag tracks run activity exactly: isRunning is true if a
\* run is between its start and its end and false if none is.  Stated for
\* the states in which every update passed to setProgress has been applied,
\* so that a render still to come is not what decides it.
C13_FlagTracksRuns ==
    queue = <<>> => (progress.isRunning <=> \E r \in Runs : Running(r))

\* C14: the second candidate query retrieves the records with Latitud and
\* Longitud whose enrichment data is more than 7 days old, up to the query
\* limit, and nothing else.
C14_StaleRetrieved ==
    \A r \in Runs :
        /\ q2[r].got \subseteq q2[r].stale
        /\ Cardinality(q2[r].got) = Min(Cardinality(q2[r].stale), QueryLimit)

\* C15: every candidate for which a run dispatches an invoke has Latitud and
\* Longitud and has either no enrichment data or data more than 7 days old;
\* a record with fresh data is never dispatched.
C15_DispatchedNeedEnrichment ==
    \A r \in Runs :
        \A j \in Range(Flatten(batches[r])) :
            /\ cand[r][j].lat /\ cand[r][j].lng
            /\ cand[r][j].data \in {"none", "stale"}

\* C16: the batches of a run are strictly serialized: a run has at most 3
\* invokes in flight, all of its latest batch; a batch is dispatched only
\* when no invoke of the run is in flight, one batch at a time, and every
\* batch after the first only when the delay after the one before has elapsed.
C16_BatchesSerialized ==
    /\ [](\A r \in Runs :
            /\ Cardinality(inflight[r]) <= 3
            /\ inflight[r] # {}
               => /\ pc[r] = "batch"
                  /\ inflight[r] \subseteq Range(batches[r][Len(batches[r])]))
    /\ [][\A r \in Runs :
            batches'[r] # batches[r]
            => /\ inflight[r] = {}
               /\ Len(batches'[r]) = Len(batches[r]) + 1
               /\ SubSeq(batches'[r], 1, Len(batches[r])) = batches[r]
               /\ batches[r] # <<>> => (pc[r] = "delay" /\ delays[r] = Len(batches[r]))
               /\ batches[r] = <<>> => pc[r] = "query2"]_vars

C16_Witness ==
    \E r \in Runs :
        /\ pc[r] = "batch" /\ Len(batches[r]) = 2 /\ delays[r] = 1
        /\ Len(batches[r][1]) = 3 /\ inflight[r] = {4}
\* the progress state once every update passed to setProgress is applied
Logical == ApplyAll(progress, queue)

\* C17: a hung invoke stalls its run: as long as an invoke of a batch has not
\* settled, no later batch of the run has been dispatched, the run has not
\* ended, and isRunning is true.
C17_HungCallStalls ==
    \A r \in Runs :
        inflight[r] # {}
        => /\ pc[r] = "batch"
           /\ inflight[r] \subseteq Range(batches[r][Len(batches[r])])
           /\ Logical.isRunning
\* C18: starting a run resets processed and errors to 0 and sets the flag
\* but leaves total as it was until both queries have succeeded: a run
\* aborted by a query error ends with {total as before the run, 0, 0, false},
\* and when the first batch of a run is dispatched the state is
\* {total: N of this run, 0, 0, true}.  Stated of the state with every
\* update applied.
C18_ResetKeepsTotal ==
    [][\A r \in Runs :
          /\ (pc[r] = "idle" /\ pc'[r] = "query1")
             => Logical' = [Logical EXCEPT !.processed = 0, !.errors = 0,
                                           !.isRunning = TRUE]
          /\ (pc[r] \in {"query1", "query2"} /\ pc'[r] \in {"query1", "query2"})
             => Logical'.total = Logical.total
          /\ (pc[r] = "query2" /\ ending'[r] = "fetchError")
             => Logical' = [total |-> Logical.total, processed |-> 0,
                            errors |-> 0, isRunning |-> FALSE]
          /\ (batches[r] = <<>> /\ batches'[r] # <<>>)
             => Logical' = [total |-> n'[r], processed |-> 0,
                            errors |-> 0, isRunning |-> TRUE]]_vars
\* C19: within a run progress only moves forward: from the reset at its
\* start to its end no step lowers processed or errors, every invoke that
\* settles raises processed by exactly 1, and once total is set from the
\* candidate list it stays at that value.  Stated of the state with every
\* update applied.
C19_ForwardOnly ==
    [][\A r \in Runs :
          /\ Running(r)
             => /\ Logical'.processed >= Logical.processed
                /\ Logical'.errors >= Logical.errors
          /\ (inflight'[r] # inflight[r] /\ inflight'[r] \subseteq inflight[r]
                 /\ pc'[r] = "batch")
             => Logical'.processed = Logical.processed + 1
          /\ pc[r] \in {"batch", "delay"}
             => Logical.total = n[r] /\ Logical'.total = n[r]]_vars
\* C20: getEnrichmentStats is independent of the runs: each of its steps,
\* whether a run is in progress or not and whether its queries succeed or
\* fail, leaves total, processed, errors and isRunning unchanged, rendered
\* and pending alike, and dispatches no invoke.
C20_StatsIndependent ==
    [][statsVars' # statsVars
       => UNCHANGED <<progress, queue, closure, pc, inflight, batches, sent>>]_vars

C20_Witness ==
    \E r \in Runs :
        /\ stats # <<>> /\ Len(sout) = 2 /\ sout[1].o = "error"
        /\ pc[r] = "batch" /\ inflight[r] # {}
        /\ progress.isRunning /\ progress.total = 1
====
